---------------------------- MODULE Spec2Model ----------------------------
(***************************************************************************)
(* A model of the pipeline monitor: PipelineMonitor (record log, per-      *)
(* pipeline metrics map, queries) and AnomalyDetector (peer statistics).   *)
(*                                                                         *)
(* Conventions.                                                            *)
(*  - A Python value that may be None is None == <<>> or Some(x) == <<x>>; *)
(*    JSON null is None.  Pipeline ids and teams are such values.          *)
(*  - A parsed JSON line is a function from the keys it holds to values;   *)
(*    a key the line lacks is not in its DOMAIN.                           *)
(*  - A float is the exact rational <<numerator, denominator>> in lowest   *)
(*    terms: the arithmetic is the code's, carried out without rounding.   *)
(*  - A dict is [keys |-> insertion-ordered sequence, at |-> key -> value].*)
(*  - A method is an operator from the object (and its arguments) to       *)
(*    [self |-> the object afterwards, ret |-> ..., exc |-> ...].          *)
(***************************************************************************)
EXTENDS Integers, Sequences, FiniteSets, TLC

VARIABLES
    executions,        \* PipelineMonitor.executions: the record log
    pipeline_metrics,  \* PipelineMonitor.pipeline_metrics: defaultdict
    alerts,            \* PipelineMonitor.alerts
    call               \* the last call made on the monitor and its outcome

vars == <<executions, pipeline_metrics, alerts, call>>

-----------------------------------------------------------------------------
(* Bounds of the model *)

\* the record log holds at most MaxLog records: a file has at most as many
\* lines as the log has room left
MaxLog == 3
\* the generated data sets hold 0..MaxPeers peer pipelines and one more
MaxPeers == 5

-----------------------------------------------------------------------------
(* Optional values and exceptions *)

None == <<>>
Some(x) == <<x>>
NoExc == "None"

-----------------------------------------------------------------------------
(* Exact rationals *)

RECURSIVE Gcd(_, _)
Gcd(a, b) == IF b = 0 THEN a ELSE Gcd(b, a % b)

IAbs(i) == IF i < 0 THEN -i ELSE i

\* the rational n/d (d # 0) in lowest terms with a positive denominator
R(n, d) ==
    LET g == Gcd(IAbs(n), IAbs(d))
        s == IF d < 0 THEN -1 ELSE 1
    IN  <<(s * n) \div g, (s * d) \div g>>

RInt(i) == <<i, 1>>
RZero == RInt(0)
RAdd(a, b) ==
    LET g == Gcd(a[2], b[2])
    IN  R(a[1] * (b[2] \div g) + b[1] * (a[2] \div g), (a[2] \div g) * b[2])
RNeg(a) == <<-a[1], a[2]>>
RSub(a, b) == RAdd(a, RNeg(b))
RMul(a, b) ==
    LET x == R(a[1], b[2])
        y == R(b[1], a[2])
    IN  <<x[1] * y[1], x[2] * y[2]>>
RDivInt(a, i) == RMul(a, R(1, i))
RLess(a, b) ==
    LET g == Gcd(a[2], b[2])
    IN  a[1] * (b[2] \div g) < b[1] * (a[2] \div g)
RLeq(a, b) == ~RLess(b, a)
RAbs(a) == <<IAbs(a[1]), a[2]>>
RSquare(a) == <<a[1] * a[1], a[2] * a[2]>>

RECURSIVE RSumSeq(_)
RSumSeq(s) == IF s = <<>> THEN RZero ELSE RAdd(Head(s), RSumSeq(Tail(s)))

-----------------------------------------------------------------------------
(* Sequences and dicts *)

RECURSIVE SelectSeqBy(_, _)
\* the subsequence of s at the indices in the set idx, in order
SelectSeqBy(s, idx) ==
    IF s = <<>> THEN <<>>
    ELSE SelectSeqBy(SubSeq(s, 1, Len(s) - 1), idx)
         \o (IF Len(s) \in idx THEN <<s[Len(s)]>> ELSE <<>>)

Range(s) == {s[i] : i \in DOMAIN s}

EmptyDict == [keys |-> <<>>, at |-> <<>>]
Has(d, k) == k \in Range(d.keys)
\* d[k] = v: a new key goes to the end of the iteration order
DictSet(d, k, v) ==
    [keys |-> IF Has(d, k) THEN d.keys ELSE Append(d.keys, k),
     at   |-> [x \in Range(d.keys) \cup {k} |-> IF x = k THEN v ELSE d.at[x]]]
\* d.values(), in iteration order
DictValues(d) == [i \in DOMAIN d.keys |-> d.at[d.keys[i]]]

-----------------------------------------------------------------------------
(* Enumerations *)

PipelineStatus == {"RUNNING", "SUCCESS", "FAILED", "CANCELLED", "TIMEOUT", "UNKNOWN"}
AlertSeverity == {"LOW", "MEDIUM", "HIGH", "CRITICAL"}

-----------------------------------------------------------------------------
(* Timestamps.  A timestamp string is [day, zone]: the date and time, and  *)
(* the suffix that names the zone ("" for none).  A datetime is            *)
(* [day, tzinfo] with tzinfo "None" (naive) or "UTC" (aware).              *)

\* str.replace('Z', '+00:00')
ReplaceZ(zone) == IF zone = "Z" THEN "+00:00" ELSE zone

\* datetime.fromisoformat(s.replace('Z', '+00:00'))
fromisoformat(s) ==
    LET zone == ReplaceZ(s.zone)
    IN  IF zone = "" THEN [exc |-> NoExc, ret |-> [day |-> s.day, tzinfo |-> "None"]]
        ELSE IF zone = "+00:00"
             THEN [exc |-> NoExc, ret |-> [day |-> s.day, tzinfo |-> "UTC"]]
        ELSE [exc |-> "ValueError", ret |-> None]

\* a >= b on datetimes: naive against aware raises TypeError
DatetimeGeq(a, b) ==
    IF a.tzinfo # b.tzinfo THEN [exc |-> "TypeError", ret |-> FALSE]
    ELSE [exc |-> NoExc, ret |-> a.day >= b.day]

-----------------------------------------------------------------------------
(* PipelineExecution *)

\* PipelineStatus(status), with the ValueError handled
CoerceStatus(status) ==
    IF status # None /\ status[1] \in PipelineStatus THEN status[1] ELSE "UNKNOWN"

\* PipelineExecution.__init__: the arguments are JSON values (None or Some)
PipelineExecution_init(execution_id, pipeline_id, status, start_time, end_time, duration, records_processed, team) ==
    IF start_time = None THEN [exc |-> "AttributeError", ret |-> None]
    ELSE IF fromisoformat(start_time[1]).exc # NoExc
    THEN [exc |-> fromisoformat(start_time[1]).exc, ret |-> None]
    ELSE IF end_time # None /\ fromisoformat(end_time[1]).exc # NoExc
    THEN [exc |-> fromisoformat(end_time[1]).exc, ret |-> None]
    ELSE [exc |-> NoExc,
          ret |-> [execution_id |-> execution_id,
                   pipeline_id |-> pipeline_id,
                   status |-> CoerceStatus(status),
                   start_time |-> fromisoformat(start_time[1]).ret,
                   end_time |-> IF end_time # None
                                THEN Some(fromisoformat(end_time[1]).ret) ELSE None,
                   duration |-> IF duration # None THEN duration[1] ELSE 0,
                   records_processed |->
                       IF records_processed # None THEN records_processed[1] ELSE 0,
                   team |-> team]]

JsonKeys == {"execution_id", "pipeline_id", "status", "start_time", "end_time",
             "duration", "records_processed", "team"}

\* PipelineExecution.from_json: data[key] raises KeyError for a key the
\* line lacks
from_json(data) ==
    IF ~(JsonKeys \subseteq DOMAIN data) THEN [exc |-> "KeyError", ret |-> None]
    ELSE PipelineExecution_init(data.execution_id, data.pipeline_id, data.status,
                                data.start_time, data.end_time, data.duration,
                                data.records_processed, data.team)

-----------------------------------------------------------------------------
(* PipelineMonitor: the metrics map and ingestion *)

\* the default factory of pipeline_metrics
DefaultMetrics ==
    [total_executions |-> 0,
     successful_executions |-> 0,
     failed_executions |-> 0,
     avg_duration |-> RZero,
     avg_records_processed |-> RZero,
     last_execution |-> None,
     team |-> None]

\* defaultdict.__getitem__: a missing key is inserted with the default
DefaultGet(d, k) == IF Has(d, k) THEN d ELSE DictSet(d, k, DefaultMetrics)

\* the running mean with the old mean weighted by total_execs
RunningMean_weight_n(current_avg, total_execs, value) ==
    RDivInt(RAdd(RMul(current_avg, RInt(total_execs)), RInt(value)), total_execs)

\* ((current_avg * (total_execs - 1)) + value) / total_execs
RunningMean(current_avg, total_execs, value) ==
    RDivInt(RAdd(RMul(current_avg, RInt(total_execs - 1)), RInt(value)), total_execs)

\* UpdatedMetrics with total_executions counting only the executions that
\* ended in SUCCESS or FAILED
UpdatedMetrics_total_of_finished(metrics, execution) ==
    [metrics EXCEPT
       !.total_executions = IF execution.status \in {"SUCCESS", "FAILED"} THEN @ + 1 ELSE @,
       !.team = execution.team,
       !.successful_executions = IF execution.status = "SUCCESS" THEN @ + 1 ELSE @,
       !.failed_executions = IF execution.status = "FAILED" THEN @ + 1 ELSE @,
       !.last_execution = Some(execution.start_time)]

\* UpdatedMetrics with a plain else in place of the elif on FAILED
UpdatedMetrics_else_failed(metrics, execution) ==
    [metrics EXCEPT
       !.total_executions = @ + 1,
       !.team = execution.team,
       !.successful_executions = IF execution.status = "SUCCESS" THEN @ + 1 ELSE @,
       !.failed_executions = IF execution.status = "SUCCESS" THEN @ ELSE @ + 1,
       !.last_execution = Some(execution.start_time)]

\* UpdatedMetrics that keeps the latest start time seen, and its team
UpdatedMetrics_latest_start(metrics, execution) ==
    [metrics EXCEPT
       !.total_executions = @ + 1,
       !.team = IF metrics.last_execution # None
                   /\ metrics.last_execution[1].day > execution.start_time.day
                THEN @ ELSE execution.team,
       !.successful_executions = IF execution.status = "SUCCESS" THEN @ + 1 ELSE @,
       !.failed_executions = IF execution.status = "FAILED" THEN @ + 1 ELSE @,
       !.avg_duration =
           IF execution.duration > 0
           THEN RunningMean(@, metrics.total_executions + 1, execution.duration)
           ELSE @,
       !.avg_records_processed =
           IF execution.records_processed > 0
           THEN RunningMean(@, metrics.total_executions + 1, execution.records_processed)
           ELSE @,
       !.last_execution = IF @ # None /\ @[1].day > execution.start_time.day
                          THEN @ ELSE Some(execution.start_time)]

\* the assignments of _update_pipeline_metrics to the entry of the pipeline
UpdatedMetrics(metrics, execution) ==
    [metrics EXCEPT
       !.total_executions = @ + 1,
       !.team = execution.team,
       !.successful_executions = IF execution.status = "SUCCESS" THEN @ + 1 ELSE @,
       !.failed_executions = IF execution.status = "FAILED" THEN @ + 1 ELSE @,
       !.avg_duration =
           IF execution.duration > 0
           THEN RunningMean(@, metrics.total_executions + 1, execution.duration)
           ELSE @,
       !.avg_records_processed =
           IF execution.records_processed > 0
           THEN RunningMean(@, metrics.total_executions + 1, execution.records_processed)
           ELSE @,
       !.last_execution = Some(execution.start_time)]

\* the entry self.pipeline_metrics[k] reads: the default for a missing key
EntryOf(d, k) == IF Has(d, k) THEN d.at[k] ELSE DefaultMetrics

\* PipelineMonitor._update_pipeline_metrics: the metrics map afterwards
update_pipeline_metrics(metrics_map, execution) ==
    DictSet(metrics_map, execution.pipeline_id,
            UpdatedMetrics(EntryOf(metrics_map, execution.pipeline_id), execution))

\* one line of a data file: blank, text that is not JSON, or a JSON object
BlankLine == [kind |-> "blank"]
TextLine == [kind |-> "text"]
JsonLine(data) == [kind |-> "json", data |-> data]

\* the two statements of the loop body of load_executions after from_json
Ingest(self, execution) ==
    [self EXCEPT !.executions = Append(@, execution),
                 !.pipeline_metrics = update_pipeline_metrics(@, execution)]

RECURSIVE load_executions(_, _)
RECURSIVE LoadRest(_, _, _)
\* PipelineMonitor.load_executions over the lines of the file: each record
\* is appended and folded into the metrics as it is read, and the first
\* line that fails ends the loop with its exception
load_executions(self, file) ==
    IF file = <<>> THEN [self |-> self, exc |-> NoExc, ret |-> None]
    ELSE IF Head(file).kind = "blank" THEN load_executions(self, Tail(file))
    ELSE IF Head(file).kind = "text" THEN [self |-> self, exc |-> "JSONDecodeError", ret |-> None]
    ELSE LoadRest(self, from_json(Head(file).data), Tail(file))

\* the loop of load_executions once from_json has returned or raised
LoadRest(self, made, rest) ==
    IF made.exc # NoExc THEN [self |-> self, exc |-> made.exc, ret |-> None]
    ELSE load_executions(Ingest(self, made.ret), rest)

\* the monitor object
Self ==
    [executions |-> executions, pipeline_metrics |-> pipeline_metrics, alerts |-> alerts]

-----------------------------------------------------------------------------
(* AnomalyDetector *)

STDEV_FALLBACK_SR == 5
SR_SIGMA == 1
SR_SEVERITY_HIGH_DELTA == 30
DURATION_SIGMA == 2
DURATION_SEVERITY_HIGH_DELTA == 100
RECORDS_SIGMA == 2
RECORDS_SEVERITY_HIGH_DELTA == 1000
min_executions == 5
min_data_points == 3

\* statistics.mean and statistics.variance (stdev is its square root; the
\* model carries the variance, which is rational); both need enough data
mean(values) == RDivInt(RSumSeq(values), Len(values))
SquaresAbout(values, m) == RSumSeq([i \in DOMAIN values |-> RSquare(RSub(values[i], m))])
variance(values) == RDivInt(SquaresAbout(values, mean(values)), Len(values) - 1)

\* The number base + coef * sqrt(radicand), radicand >= 0: a threshold.
Surd(base, coef, radicand) == [base |-> base, coef |-> coef, radicand |-> radicand]
\* x < t and x > t for a rational x and a threshold t
\* d < coef * sqrt(q / coef^2) and d > the same
BelowRoot(d, coef, q) ==
    IF coef >= 0 THEN RLess(d, RZero) \/ RLess(RSquare(d), q)
    ELSE RLess(d, RZero) /\ RLess(q, RSquare(d))
AboveRoot(d, coef, q) ==
    IF coef >= 0 THEN RLess(RZero, d) /\ RLess(q, RSquare(d))
    ELSE RLess(RZero, d) \/ RLess(RSquare(d), q)
BelowSurd(x, t) ==
    BelowRoot(RSub(x, t.base), t.coef, RMul(RInt(t.coef * t.coef), t.radicand))
AboveSurd(x, t) ==
    AboveRoot(RSub(x, t.base), t.coef, RMul(RInt(t.coef * t.coef), t.radicand))

\* metrics.get('team') or 'unknown'
OrUnknown(team) == IF team # None /\ team[1] # "" THEN team[1] ELSE "unknown"

\* successful / total * 100 if total > 0 else 0
SuccessRate(metrics) ==
    IF metrics.total_executions > 0
    THEN R(metrics.successful_executions * 100, metrics.total_executions)
    ELSE RZero

\* the metric's value in one metrics entry, None when it has none
MetricValue(metrics, metric_key) ==
    IF metric_key = "success_rate"
    THEN IF metrics.total_executions > 0 THEN Some(SuccessRate(metrics)) ELSE None
    ELSE IF metric_key = "avg_duration" THEN Some(metrics.avg_duration)
    ELSE Some(metrics.avg_records_processed)

\* AnomalyDetector._collect_metric_values with condition value > 0
collect_metric_values(metrics_map, metric_key) ==
    SelectSeqBy([i \in DOMAIN metrics_map.keys |->
                    MetricValue(metrics_map.at[metrics_map.keys[i]], metric_key)[1]],
                {i \in DOMAIN metrics_map.keys :
                    /\ metrics_map.at[metrics_map.keys[i]].total_executions >= min_executions
                    /\ RLess(RZero, MetricValue(metrics_map.at[metrics_map.keys[i]],
                                                metric_key)[1])})

\* the comparison population of detect_success_rate_anomalies
success_rate_values(metrics_map) ==
    SelectSeqBy([i \in DOMAIN metrics_map.keys |->
                    SuccessRate(metrics_map.at[metrics_map.keys[i]])],
                {i \in DOMAIN metrics_map.keys :
                    /\ metrics_map.at[metrics_map.keys[i]].total_executions >= min_executions
                    /\ metrics_map.at[metrics_map.keys[i]].total_executions > 0})

\* threshold_func with the fallback added to the mean
threshold_func_fallback_above(metric_key, mean_val, stdev2) ==
    IF metric_key = "success_rate"
    THEN IF RLess(RZero, stdev2) THEN Surd(mean_val, -SR_SIGMA, stdev2)
         ELSE Surd(mean_val, SR_SIGMA, RInt(STDEV_FALLBACK_SR * STDEV_FALLBACK_SR))
    ELSE IF metric_key = "avg_duration" THEN Surd(mean_val, DURATION_SIGMA, stdev2)
    ELSE Surd(mean_val, -RECORDS_SIGMA, stdev2)

\* the threshold_func closures; stdev2 is the square of stdev
threshold_func(metric_key, mean_val, stdev2) ==
    IF metric_key = "success_rate"
    THEN Surd(mean_val, -SR_SIGMA,
              IF RLess(RZero, stdev2) THEN stdev2
              ELSE RInt(STDEV_FALLBACK_SR * STDEV_FALLBACK_SR))
    ELSE IF metric_key = "avg_duration" THEN Surd(mean_val, DURATION_SIGMA, stdev2)
    ELSE Surd(mean_val, -RECORDS_SIGMA, stdev2)

\* the check_func closures
check_func(metric_key, mean_val, stdev2, value) ==
    IF metric_key = "avg_duration"
    THEN AboveSurd(value, threshold_func(metric_key, mean_val, stdev2))
    ELSE BelowSurd(value, threshold_func(metric_key, mean_val, stdev2))

\* severity_func with >= in place of >
severity_func_geq(metric_key, deviation) ==
    LET delta == IF metric_key = "success_rate" THEN SR_SEVERITY_HIGH_DELTA
                 ELSE IF metric_key = "avg_duration" THEN DURATION_SEVERITY_HIGH_DELTA
                 ELSE RECORDS_SEVERITY_HIGH_DELTA
    IN  IF RLeq(RInt(delta), deviation) THEN "HIGH" ELSE "MEDIUM"

\* the severity_func closures
severity_func(metric_key, deviation) ==
    LET delta == IF metric_key = "success_rate" THEN SR_SEVERITY_HIGH_DELTA
                 ELSE IF metric_key = "avg_duration" THEN DURATION_SEVERITY_HIGH_DELTA
                 ELSE RECORDS_SEVERITY_HIGH_DELTA
    IN  IF RLess(RInt(delta), deviation) THEN "HIGH" ELSE "MEDIUM"

\* the message_func closures: the template and the numbers it prints (each
\* to one decimal; the model keeps the numbers); only the success-rate
\* message prints the peer mean
message_func(metric_key, value, threshold, mean_val) ==
    [template |-> IF metric_key = "success_rate" THEN "Anomalous success rate"
                  ELSE IF metric_key = "avg_duration" THEN "Anomalous high duration"
                  ELSE "Anomalous low records processed",
     value |-> value,
     threshold |-> threshold,
     peer_mean |-> IF metric_key = "success_rate" THEN Some(mean_val) ELSE None]

\* the body of the loop of _detect_anomalies for one pipeline, its metrics
\* entry and its value: the alerts it appends
AlertsOf(pipeline_id, metrics, value, metric_key, mean_val, stdev2, now) ==
    IF metrics.total_executions < min_executions THEN <<>>
    ELSE IF value # None /\ check_func(metric_key, mean_val, stdev2, value[1])
    THEN << [pipeline_id |-> pipeline_id,
             severity |-> severity_func(metric_key, RAbs(RSub(mean_val, value[1]))),
             message |-> message_func(metric_key, value[1],
                             threshold_func(metric_key, mean_val, stdev2), mean_val),
             team |-> OrUnknown(metrics.team),
             timestamp |-> [day |-> now, tzinfo |-> "None"]] >>
    ELSE <<>>

RECURSIVE AlertsUpTo(_, _, _, _, _, _)
AlertsUpTo(metrics_map, n, metric_key, mean_val, stdev2, now) ==
    IF n = 0 THEN <<>>
    ELSE AlertsUpTo(metrics_map, n - 1, metric_key, mean_val, stdev2, now)
         \o AlertsOf(metrics_map.keys[n], metrics_map.at[metrics_map.keys[n]],
                     MetricValue(metrics_map.at[metrics_map.keys[n]], metric_key),
                     metric_key, mean_val, stdev2, now)

\* _detect_anomalies with the sample-size test off by one
detect_anomalies_generic_off_by_one(metrics_map, values, metric_key, now) ==
    IF Len(values) < min_data_points - 1 THEN [exc |-> NoExc, ret |-> <<>>]
    ELSE IF Len(values) < 2 THEN [exc |-> "StatisticsError", ret |-> <<>>]
    ELSE [exc |-> NoExc,
          ret |-> AlertsUpTo(metrics_map, Len(metrics_map.keys), metric_key,
                             mean(values), variance(values), now)]

\* AnomalyDetector._detect_anomalies
detect_anomalies_generic(metrics_map, values, metric_key, now) ==
    IF Len(values) < min_data_points THEN [exc |-> NoExc, ret |-> <<>>]
    ELSE IF Len(values) < 2 THEN [exc |-> "StatisticsError", ret |-> <<>>]
    ELSE [exc |-> NoExc,
          ret |-> AlertsUpTo(metrics_map, Len(metrics_map.keys), metric_key,
                             mean(values), variance(values), now)]

detect_success_rate_anomalies(metrics_map, now) ==
    detect_anomalies_generic(metrics_map, success_rate_values(metrics_map),
                             "success_rate", now)

detect_duration_anomalies(metrics_map, now) ==
    detect_anomalies_generic(metrics_map, collect_metric_values(metrics_map, "avg_duration"),
                             "avg_duration", now)

detect_records_anomalies(metrics_map, now) ==
    detect_anomalies_generic(metrics_map,
                             collect_metric_values(metrics_map, "avg_records_processed"),
                             "avg_records_processed", now)

\* anomalies.extend of the three passes, or the exception of the first
\* that raised
Extend3(sr, du, re) ==
    IF sr.exc # NoExc THEN sr
    ELSE IF du.exc # NoExc THEN du
    ELSE IF re.exc # NoExc THEN re
    ELSE [exc |-> NoExc, ret |-> sr.ret \o du.ret \o re.ret]

\* AnomalyDetector.detect_all_anomalies: the three passes in order; the
\* first pass that raises ends the call
detect_all_anomalies(metrics_map, now) ==
    Extend3(detect_success_rate_anomalies(metrics_map, now),
            detect_duration_anomalies(metrics_map, now),
            detect_records_anomalies(metrics_map, now))

-----------------------------------------------------------------------------
(* PipelineMonitor: the queries *)

\* bool(x) of an optional string
Truthy(x) == x # None /\ x[1] # ""

\* datetime.isoformat()
isoformat(dt) == [day |-> dt.day, zone |-> IF dt.tzinfo = "UTC" THEN "+00:00" ELSE ""]

\* one entry of the all-pipelines summary
SummaryOf(metrics) ==
    [success_rate |-> SuccessRate(metrics),
     total_executions |-> metrics.total_executions,
     team |-> metrics.team]

\* the all-pipelines summary: a dict with the keys of the metrics map
HealthSummary(metrics_map) ==
    [keys |-> metrics_map.keys,
     at |-> [pid \in DOMAIN metrics_map.at |-> SummaryOf(metrics_map.at[pid])]]

\* the single-pipeline result
HealthOf(pipeline_id, metrics) ==
    [pipeline_id |-> pipeline_id,
     success_rate |-> SuccessRate(metrics),
     total_executions |-> metrics.total_executions,
     failed_executions |-> metrics.failed_executions,
     avg_duration |-> metrics.avg_duration,
     avg_records_processed |-> metrics.avg_records_processed,
     last_execution |-> IF metrics.last_execution # None
                        THEN Some(isoformat(metrics.last_execution[1])) ELSE None,
     team |-> metrics.team]

\* get_pipeline_health without its "not in" test
get_pipeline_health_unguarded(self, pipeline_id) ==
    IF Truthy(pipeline_id)
    THEN [self |-> [self EXCEPT !.pipeline_metrics = DefaultGet(@, pipeline_id)],
          exc |-> NoExc,
          ret |-> HealthOf(pipeline_id, EntryOf(self.pipeline_metrics, pipeline_id))]
    ELSE [self |-> self, exc |-> NoExc, ret |-> HealthSummary(self.pipeline_metrics)]

\* PipelineMonitor.get_pipeline_health; self.pipeline_metrics[pipeline_id]
\* is the defaultdict's lookup
get_pipeline_health(self, pipeline_id) ==
    IF Truthy(pipeline_id)
    THEN IF ~Has(self.pipeline_metrics, pipeline_id)
         THEN [self |-> self, exc |-> NoExc,
               ret |-> [error |-> <<"Pipeline not found", pipeline_id>>]]
         ELSE [self |-> [self EXCEPT !.pipeline_metrics = DefaultGet(@, pipeline_id)],
               exc |-> NoExc,
               ret |-> HealthOf(pipeline_id, EntryOf(self.pipeline_metrics, pipeline_id))]
    ELSE [self |-> self, exc |-> NoExc, ret |-> HealthSummary(self.pipeline_metrics)]

\* a result r of a call that leaves the object self as it is
Returning(self, r) == [self |-> self, exc |-> r.exc, ret |-> r.ret]

\* the alerts of a call kept in self.alerts, and all of them returned
Keeping(self, r) ==
    [self |-> [self EXCEPT !.alerts = @ \o r.ret], exc |-> r.exc, ret |-> self.alerts \o r.ret]

\* detect_anomalies that keeps its alerts in self.alerts
detect_anomalies_keeping(self, now) ==
    Keeping(self, detect_all_anomalies(self.pipeline_metrics, now))

\* PipelineMonitor.detect_anomalies
detect_anomalies(self, now) ==
    Returning(self, detect_all_anomalies(self.pipeline_metrics, now))

\* the default factory of team_metrics
DefaultTeam ==
    [total_pipelines |-> 0, total_executions |-> 0, successful_executions |-> 0,
     failed_executions |-> 0, avg_success_rate |-> RZero]

\* the body of the first loop of get_team_metrics
AddPipeline(team_metrics, team, metrics) ==
    DictSet(team_metrics, team,
        [(IF Has(team_metrics, team) THEN team_metrics.at[team] ELSE DefaultTeam) EXCEPT
           !.total_pipelines = @ + 1,
           !.total_executions = @ + metrics.total_executions,
           !.successful_executions = @ + metrics.successful_executions,
           !.failed_executions = @ + metrics.failed_executions])

RECURSIVE TeamSums(_, _)
\* the first loop of get_team_metrics over the first n keys
TeamSums(metrics_map, n) ==
    IF n = 0 THEN EmptyDict
    ELSE AddPipeline(TeamSums(metrics_map, n - 1),
                     OrUnknown(metrics_map.at[metrics_map.keys[n]].team),
                     metrics_map.at[metrics_map.keys[n]])

\* the body of the second loop of get_team_metrics
TeamRate(t) ==
    IF t.total_executions > 0
    THEN [t EXCEPT !.avg_success_rate = R(t.successful_executions * 100, t.total_executions)]
    ELSE t

\* the second loop of get_team_metrics
TeamRates(sums) ==
    [keys |-> sums.keys, at |-> [team \in DOMAIN sums.at |-> TeamRate(sums.at[team])]]

\* get_team_metrics with avg_success_rate the mean of the success rates of
\* the pipelines of the team
AddPipelineRate(team_metrics, team, metrics) ==
    DictSet(team_metrics, team,
        [(IF Has(team_metrics, team) THEN team_metrics.at[team] ELSE DefaultTeam) EXCEPT
           !.total_pipelines = @ + 1,
           !.total_executions = @ + metrics.total_executions,
           !.successful_executions = @ + metrics.successful_executions,
           !.failed_executions = @ + metrics.failed_executions,
           !.avg_success_rate = RAdd(@, SuccessRate(metrics))])

RECURSIVE TeamSumsOfRates(_, _)
TeamSumsOfRates(metrics_map, n) ==
    IF n = 0 THEN EmptyDict
    ELSE AddPipelineRate(TeamSumsOfRates(metrics_map, n - 1),
                         OrUnknown(metrics_map.at[metrics_map.keys[n]].team),
                         metrics_map.at[metrics_map.keys[n]])

MeanOfRates(sums) ==
    [keys |-> sums.keys,
     at |-> [team \in DOMAIN sums.at |->
                [sums.at[team] EXCEPT
                   !.avg_success_rate = RDivInt(@, sums.at[team].total_pipelines)]]]

get_team_metrics_mean_of_rates(self) ==
    [self |-> self, exc |-> NoExc,
     ret |-> MeanOfRates(TeamSumsOfRates(self.pipeline_metrics,
                                         Len(self.pipeline_metrics.keys)))]

\* PipelineMonitor.get_team_metrics
get_team_metrics(self) ==
    [self |-> self, exc |-> NoExc,
     ret |-> TeamRates(TeamSums(self.pipeline_metrics, Len(self.pipeline_metrics.keys)))]

\* one step of the list comprehension of get_performance_trends: the
\* comparison is made only for the records of the pipeline, and raises
\* between a naive and an aware time
KeepRecent(front, execution, pipeline_id, cutoff_date) ==
    IF front.exc # NoExc THEN front
    ELSE IF execution.pipeline_id # pipeline_id THEN front
    ELSE IF DatetimeGeq(execution.start_time, cutoff_date).exc # NoExc
    THEN [exc |-> DatetimeGeq(execution.start_time, cutoff_date).exc, ret |-> <<>>]
    ELSE IF DatetimeGeq(execution.start_time, cutoff_date).ret
    THEN [exc |-> NoExc, ret |-> Append(front.ret, execution)]
    ELSE front

RECURSIVE RecentExecutions(_, _, _)
\* the list comprehension of get_performance_trends: the records of the
\* pipeline with start_time >= cutoff_date, in the order of the log
RecentExecutions(log, pipeline_id, cutoff_date) ==
    IF log = <<>> THEN [exc |-> NoExc, ret |-> <<>>]
    ELSE KeepRecent(RecentExecutions(SubSeq(log, 1, Len(log) - 1), pipeline_id, cutoff_date),
                    log[Len(log)], pipeline_id, cutoff_date)

\* min and max of a non-empty sequence of integers
SeqMin(s) == CHOOSE x \in Range(s) : \A y \in Range(s) : x <= y
SeqMax(s) == CHOOSE x \in Range(s) : \A y \in Range(s) : x >= y

\* the positive durations of the records
Durations(recent_executions) ==
    SelectSeqBy([i \in DOMAIN recent_executions |-> recent_executions[i].duration],
                {i \in DOMAIN recent_executions : recent_executions[i].duration > 0})

\* the statistics of the durations in the trend object
DurationStats(durations) ==
    [avg |-> IF durations # <<>>
             THEN mean([i \in DOMAIN durations |-> RInt(durations[i])]) ELSE RZero,
     min |-> IF durations # <<>> THEN SeqMin(durations) ELSE 0,
     max |-> IF durations # <<>> THEN SeqMax(durations) ELSE 0]

\* the trend object of get_performance_trends
TrendOf(pipeline_id, days, recent_executions, stats) ==
    [pipeline_id |-> pipeline_id,
     total_executions |-> Len(recent_executions),
     success_rate |->
         R(Cardinality({i \in DOMAIN recent_executions :
                           recent_executions[i].status = "SUCCESS"}) * 100,
           Len(recent_executions)),
     avg_duration |-> stats.avg,
     min_duration |-> stats.min,
     max_duration |-> stats.max,
     days_analyzed |-> days]

\* get_performance_trends from the filtered records on
TrendResult(self, pipeline_id, days, recent) ==
    IF recent.exc # NoExc THEN [self |-> self, exc |-> recent.exc, ret |-> None]
    ELSE IF recent.ret = <<>>
    THEN [self |-> self, exc |-> NoExc,
          ret |-> [error |-> <<"No executions found", pipeline_id, days>>]]
    ELSE [self |-> self, exc |-> NoExc,
          ret |-> TrendOf(pipeline_id, days, recent.ret,
                          DurationStats(Durations(recent.ret)))]

\* cutoff_date: now - days, given the tzinfo of the first record of the log
CutoffDate(log, days, now) ==
    [day |-> now - days,
     tzinfo |-> IF log # <<>> THEN log[1].start_time.tzinfo ELSE "None"]

\* PipelineMonitor.get_performance_trends; now is datetime.now()
get_performance_trends(self, pipeline_id, days, now) ==
    TrendResult(self, pipeline_id, days,
                RecentExecutions(self.executions, pipeline_id,
                                 CutoffDate(self.executions, days, now)))

\* Alert.to_dict
to_dict(alert) ==
    [pipeline_id |-> alert.pipeline_id, severity |-> alert.severity,
     message |-> alert.message, team |-> alert.team,
     timestamp |-> isoformat(alert.timestamp)]

\* [alert.to_dict() for alert in ...] on the result of a call
ToDicts(r) ==
    [self |-> r.self, exc |-> r.exc, ret |-> [i \in DOMAIN r.ret |-> to_dict(r.ret[i])]]

\* the keyword arguments of query: None for a keyword that is not passed
Kwargs(pipeline_id, days) == [pipeline_id |-> pipeline_id, days |-> days]

\* PipelineMonitor.query
query(self, query_type, kwargs, now) ==
    IF query_type = "pipeline_health" THEN get_pipeline_health(self, kwargs.pipeline_id)
    ELSE IF query_type = "anomalies" THEN ToDicts(detect_anomalies(self, now))
    ELSE IF query_type = "team_metrics" THEN get_team_metrics(self)
    ELSE IF query_type = "performance_trends"
    THEN get_performance_trends(self,
             IF kwargs.pipeline_id # None THEN kwargs.pipeline_id ELSE Some(""),
             IF kwargs.days # None THEN kwargs.days[1] ELSE 7, now)
    ELSE IF query_type = "total_executions"
    THEN [self |-> self, exc |-> NoExc, ret |-> Len(self.executions)]
    ELSE [self |-> self, exc |-> NoExc, ret |-> <<"Unknown query", query_type>>]

-----------------------------------------------------------------------------
(* The data files of the model *)

Ts(day, zone) == Some([day |-> day, zone |-> zone])

Data(pid, status, start, end, dur, recs, team) ==
    [execution_id |-> Some("e"), pipeline_id |-> pid, status |-> Some(status),
     start_time |-> start, end_time |-> end, duration |-> dur,
     records_processed |-> recs, team |-> team]

\* the data without one of its keys
Without(data, key) == [k \in (DOMAIN data) \ {key} |-> data[k]]

P1 == Some("p1")
P2 == Some("p2")
TeamA == Some("a")
TeamB == Some("b")

\* records that load: every status, both pipelines, two teams and none,
\* old and recent start times with and without a zone, durations and record
\* counts positive, zero and null
GoodData ==
    { Data(P1, "SUCCESS",   Ts(8, "Z"),      Ts(9, "Z"), Some(10), Some(5), TeamA),
      Data(P1, "FAILED",    Ts(1, "Z"),      None,       Some(30), None,    TeamB),
      Data(P1, "succeeded", Ts(8, ""),       None,       None,     Some(7), TeamA),
      Data(P1, "CANCELLED", Ts(1, "+00:00"), None,       Some(0),  Some(5), None),
      Data(P2, "TIMEOUT",   Ts(1, ""),       Ts(9, "Z"), Some(10), None,    TeamA),
      Data(P2, "RUNNING",   Ts(8, "Z"),      None,       Some(30), Some(7), TeamB),
      Data(P2, "UNKNOWN",   Ts(8, "Z"),      None,       None,     None,    TeamA) }

\* records that do not load: a required key missing, an optional key
\* missing, a start time that is no timestamp
BadData ==
    LET base == Data(P1, "SUCCESS", Ts(8, "Z"), None, Some(10), Some(5), TeamA)
    IN  { Without(base, "team"),
          Without(base, "duration"),
          [base EXCEPT !.start_time = Ts(8, "?")] }

\* lines that load and lines that fail
GoodLines == {JsonLine(d) : d \in GoodData}
BadLines == {JsonLine(d) : d \in BadData} \cup {TextLine}

\* the sequences over S of length 0..n
SeqsUpTo(S, n) == UNION {[1..k -> S] : k \in 0..n}

\* the file with a blank line before its last line
WithBlank(f) == SubSeq(f, 1, Len(f) - 1) \o <<BlankLine, f[Len(f)]>>

-----------------------------------------------------------------------------
(* The state machine *)

Init ==
    /\ executions = <<>>
    /\ pipeline_metrics = EmptyDict
    /\ alerts = <<>>
    /\ call = [what |-> [op |-> "__init__"], exc |-> NoExc, ret |-> None]

\* the monitor after a call with outcome r; what records the call
Called(r, what) ==
    /\ executions' = r.self.executions
    /\ pipeline_metrics' = r.self.pipeline_metrics
    /\ alerts' = r.self.alerts
    /\ call' = [what |-> what, exc |-> r.exc, ret |-> r.ret]

\* monitor.load_executions(data_file)
LoadFile(file) ==
    Called(load_executions(Self, file), [op |-> "load_executions", file |-> file])

\* the files of a load have at most as many lines as the log has room for:
\* lines that load, then possibly one that fails (the loop never reads the
\* lines after it, so none are written), or a blank line, which the loop
\* skips, among them
Load ==
    \E k \in 0..(MaxLog - Len(executions) - 1) : \E f \in [1..k -> GoodLines] :
        \/ \E g \in GoodLines : LoadFile(Append(f, g))
        \/ \E b \in BadLines : LoadFile(Append(f, b))
        \/ k > 0 /\ LoadFile(WithBlank(f))

\* datetime.now() at the calls of the model, and the windows asked for
Nows == {10, 11}
DaysArgs == {None, Some(1)}
IdArgs == {None, P1, P2}

\* the queries that read the clock
ClockQueries == {"anomalies", "performance_trends"}

\* the times of the calls of a query: the clock moves between anomaly
\* queries, whose alerts carry it; the window of the trends is moved by days
NowsOf(query_type) == IF query_type = "anomalies" THEN Nows ELSE {CHOOSE now \in Nows : TRUE}

\* monitor.query(query_type, **kwargs), for the query types of the CLI and
\* one it does not know
Query(query_type, kwargs) ==
    \E now \in NowsOf(query_type) :
        Called(query(Self, query_type, kwargs, now),
               [op |-> "query", query_type |-> query_type, kwargs |-> kwargs,
                now |-> IF query_type \in ClockQueries THEN Some(now) ELSE None])

QueryPipelineHealth == \E id \in IdArgs : Query("pipeline_health", Kwargs(id, None))
QueryAnomalies == Query("anomalies", Kwargs(None, None))
QueryTeamMetrics == Query("team_metrics", Kwargs(None, None))
QueryPerformanceTrends ==
    \E id \in IdArgs, days \in DaysArgs : Query("performance_trends", Kwargs(id, days))
QueryTotalExecutions == Query("total_executions", Kwargs(None, None))
QueryUnknown == Query("pipeline_status", Kwargs(None, None))

Queries ==
    \/ QueryPipelineHealth
    \/ QueryAnomalies
    \/ QueryTeamMetrics
    \/ QueryPerformanceTrends
    \/ QueryTotalExecutions
    \/ QueryUnknown

Next == Load \/ Queries

Spec == Init /\ [][Next]_vars

-----------------------------------------------------------------------------
(* Generated data sets: some peer pipelines and one more pipeline, each    *)
(* with a block of records of its own.  A block is given by its profile:   *)
(* n records, the first succ of them SUCCESS and the others FAILED, each   *)
(* with the same duration and record count.                                *)

Profile(n, succ, dur, recs, team) ==
    [n |-> n, succ |-> succ, dur |-> dur, recs |-> recs, team |-> team]

\* the lines of the block of a pipeline
Block(pid, profile) ==
    [i \in 1..profile.n |->
        JsonLine(Data(pid, IF i <= profile.succ THEN "SUCCESS" ELSE "FAILED",
                      Ts(8, "Z"), None, Some(profile.dur), Some(profile.recs),
                      Some(profile.team)))]

\* peers: five successful records each, with or without durations and counts
PeerProfiles == {Profile(5, 5, 10, 2000, "a"), Profile(5, 5, 0, 0, "a")}

\* the other pipeline: four or five records, three or none successful,
\* durations and record counts at, next to and off the peers'
OtherProfiles ==
    {Profile(n, succ, dur, recs, "b") :
        n \in {4, 5}, succ \in {0, 3}, dur \in {10, 130, 131}, recs \in {0, 799, 800}}

PeerNames == <<"p1", "p2", "p3", "p4", "p5", "p6", "p7", "p8">>
OtherId == Some("p0")

RECURSIVE PeerBlocks(_)
\* the blocks of the peers, given the sequence of their profiles
PeerBlocks(profiles) ==
    IF profiles = <<>> THEN <<>>
    ELSE PeerBlocks(SubSeq(profiles, 1, Len(profiles) - 1))
         \o Block(Some(PeerNames[Len(profiles)]), profiles[Len(profiles)])

Scenarios ==
    {PeerBlocks(peers) \o Block(OtherId, other) :
        peers \in SeqsUpTo(PeerProfiles, MaxPeers), other \in OtherProfiles}

\* monitor.load_executions(data_file) of a generated data set, once, on the
\* new monitor
LoadScenario ==
    /\ call.what.op = "__init__"
    /\ \E file \in Scenarios :
          Called(load_executions(Self, file), [op |-> "load_executions", file |-> file])

NextBulk ==
    \/ LoadScenario
    \/ QueryAnomalies
    \/ QueryPipelineHealth
    \/ QueryTeamMetrics

SpecBulk == Init /\ [][NextBulk]_vars

-----------------------------------------------------------------------------
(* Properties.  What they read of the last call. *)

IsLoad(c) == c.what.op = "load_executions"
IsQuery(c, query_type) == c.what.op = "query" /\ c.what.query_type = query_type

\* the number of records of a pipeline in a log
CountIn(log, pid) == Cardinality({i \in DOMAIN log : log[i].pipeline_id = pid})

\* the pipeline ids in sight
KnownIds(log, metrics_map) ==
    {P1, P2} \cup Range(metrics_map.keys) \cup {log[i].pipeline_id : i \in DOMAIN log}

\* a counter of a pipeline, 0 while it has no entry
CounterOf(metrics_map, pid, counter) ==
    IF Has(metrics_map, pid) THEN metrics_map.at[pid][counter] ELSE 0

\* the JSON objects of the lines of a file that are not blank, in order
RECURSIVE JsonOf(_)
JsonOf(file) ==
    IF file = <<>> THEN <<>>
    ELSE (IF Head(file).kind = "json" THEN <<Head(file).data>> ELSE <<>>) \o JsonOf(Tail(file))

\* among the first k objects, those of the pipeline with the status string
RawCount(objects, k, pid, status) ==
    Cardinality({i \in 1..k : objects[i].pipeline_id = pid /\ objects[i].status = Some(status)})

(* C1: for every pipeline id, total_executions is the number of records of *)
(* the log with that id, and the id has a metrics entry exactly when the   *)
(* log holds a record of it.                                               *)
C1_TotalIsCount ==
    \A pid \in KnownIds(executions, pipeline_metrics) :
        /\ Has(pipeline_metrics, pid) <=> CountIn(executions, pid) >= 1
        /\ Has(pipeline_metrics, pid) =>
               pipeline_metrics.at[pid].total_executions = CountIn(executions, pid)

\* three records, two of one pipeline and one of the other, the older one
\* ingested after the newer one
C1_Witness ==
    /\ Len(executions) = 3
    /\ CountIn(executions, P1) = 2
    /\ CountIn(executions, P2) = 1
    /\ executions[1].start_time.day > executions[3].start_time.day
    /\ pipeline_metrics.at[P1].total_executions = 2

\* the step of C2
C2_Step ==
    /\ \A pid \in Range(pipeline_metrics'.keys) :
           pipeline_metrics'.at[pid].successful_executions
             + pipeline_metrics'.at[pid].failed_executions
               <= pipeline_metrics'.at[pid].total_executions
    /\ IsLoad(call') =>
           \A pid \in KnownIds(executions', pipeline_metrics') :
               /\ CounterOf(pipeline_metrics', pid, "successful_executions")
                    - CounterOf(pipeline_metrics, pid, "successful_executions")
                  = RawCount(JsonOf(call'.what.file), Len(executions') - Len(executions),
                             pid, "SUCCESS")
               /\ CounterOf(pipeline_metrics', pid, "failed_executions")
                    - CounterOf(pipeline_metrics, pid, "failed_executions")
                  = RawCount(JsonOf(call'.what.file), Len(executions') - Len(executions),
                             pid, "FAILED")

(* C2: successful + failed <= total for every pipeline, and a load raises  *)
(* successful_executions by the number of ingested records whose status    *)
(* string is exactly SUCCESS and failed_executions by the number of those  *)
(* whose status is exactly FAILED: no other status, recognized or not,     *)
(* counts.                                                                 *)
C2_StatusCounters == [][C2_Step]_vars

\* a record with a status string that is no status was ingested as UNKNOWN
\* and counted as neither
C2_Witness ==
    /\ IsLoad(call)
    /\ call.exc = NoExc
    /\ \E i \in DOMAIN call.what.file :
          /\ call.what.file[i].kind = "json"
          /\ call.what.file[i].data.status = Some("succeeded")
    /\ executions[Len(executions)].status = "UNKNOWN"
    /\ pipeline_metrics.at[P1].total_executions = 2
    /\ pipeline_metrics.at[P1].successful_executions = 1
    /\ pipeline_metrics.at[P1].failed_executions = 0

(* C3: a load that raises leaves the record log and the metrics map as     *)
(* they were before the load.                                              *)
C3_NoPartialIngestion ==
    [][(IsLoad(call') /\ call'.exc # NoExc) =>
           (executions' = executions /\ pipeline_metrics' = pipeline_metrics)]_vars

RequiredKeys == {"execution_id", "pipeline_id", "status", "start_time", "team"}

\* the object has the required fields, and its timestamps are timestamps
MeetsInterface(data) ==
    /\ RequiredKeys \subseteq DOMAIN data
    /\ data.start_time # None
    /\ fromisoformat(data.start_time[1]).exc = NoExc
    /\ ("end_time" \in DOMAIN data /\ data.end_time # None)
           => fromisoformat(data.end_time[1]).exc = NoExc

\* the field of the object is absent or null
Missing(data, key) == key \notin DOMAIN data \/ data[key] = None

\* the record has the defaults for the optional fields the object misses
HasDefaults(execution, data) ==
    /\ Missing(data, "duration") => execution.duration = 0
    /\ Missing(data, "records_processed") => execution.records_processed = 0
    /\ Missing(data, "end_time") => execution.end_time = None

\* the step of C4: k records were ingested; the objects that were read are
\* the first k and, when the load raised on an object, the one after them
C4_Step(objects, k) ==
    \A i \in 1..Len(objects) :
        (i <= k + 1 /\ MeetsInterface(objects[i])) =>
            /\ i <= k
            /\ HasDefaults(executions'[Len(executions) + i], objects[i])

(* C4: a record with all the required fields is ingested whether its       *)
(* optional fields (end time, duration, records processed) are present,    *)
(* null or absent, with 0 for a missing duration or record count and None  *)
(* for a missing end time.                                                 *)
C4_OptionalFieldsDefault ==
    [][IsLoad(call') =>
           C4_Step(JsonOf(call'.what.file), Len(executions') - Len(executions))]_vars

(* C5: no query changes the record log or the metrics map; the health      *)
(* query for an id without an entry returns the not-found result and       *)
(* leaves the id without an entry.                                         *)
C5_QueriesArePureReads ==
    [][call'.what.op = "query" =>
           /\ executions' = executions
           /\ pipeline_metrics' = pipeline_metrics
           /\ (/\ IsQuery(call', "pipeline_health")
               /\ Truthy(call'.what.kwargs.pipeline_id)
               /\ ~Has(pipeline_metrics, call'.what.kwargs.pipeline_id))
              => (/\ "error" \in DOMAIN call'.ret
                  /\ ~Has(pipeline_metrics', call'.what.kwargs.pipeline_id))]_vars

\* the health of a pipeline that was never ingested was asked of a monitor
\* that holds records of another
C5_Witness ==
    /\ IsQuery(call, "pipeline_health")
    /\ call.what.kwargs.pipeline_id = P2
    /\ "error" \in DOMAIN call.ret
    /\ Has(pipeline_metrics, P1)
    /\ ~Has(pipeline_metrics, P2)

\* the pipelines whose current team is the team
PipelinesOf(metrics_map, team) ==
    {pid \in Range(metrics_map.keys) : OrUnknown(metrics_map.at[pid].team) = team}

RECURSIVE SumCounter(_, _, _)
\* the sum of a counter over a set of pipelines
SumCounter(metrics_map, pids, counter) ==
    IF pids = {} THEN 0
    ELSE LET pid == CHOOSE x \in pids : TRUE
         IN  metrics_map.at[pid][counter] + SumCounter(metrics_map, pids \ {pid}, counter)

RECURSIVE SumRates(_, _)
\* the sum of the success rates of a set of pipelines
SumRates(metrics_map, pids) ==
    IF pids = {} THEN RZero
    ELSE LET pid == CHOOSE x \in pids : TRUE
         IN  RAdd(SuccessRate(metrics_map.at[pid]), SumRates(metrics_map, pids \ {pid}))

\* sum(successful) / sum(total) * 100 over the pipelines of the team
Rollup(metrics_map, team) ==
    R(SumCounter(metrics_map, PipelinesOf(metrics_map, team), "successful_executions") * 100,
      SumCounter(metrics_map, PipelinesOf(metrics_map, team), "total_executions"))

(* C6: in the result of team_metrics, the teams are the current teams of   *)
(* the pipelines and avg_success_rate of a team is the sum of              *)
(* successful_executions over the sum of total_executions of its           *)
(* pipelines, times 100.                                                   *)
C6_TeamRateIsRollup ==
    IsQuery(call, "team_metrics") =>
        /\ Range(call.ret.keys) =
               {OrUnknown(pipeline_metrics.at[pid].team) : pid \in Range(pipeline_metrics.keys)}
        /\ \A team \in Range(call.ret.keys) :
               call.ret.at[team].avg_success_rate = Rollup(pipeline_metrics, team)

\* a team with two pipelines of different volume, where the rollup is not
\* the mean of the two success rates
C6_Witness ==
    /\ IsQuery(call, "team_metrics")
    /\ \E team \in Range(call.ret.keys) :
          /\ Cardinality(PipelinesOf(pipeline_metrics, team)) = 2
          /\ call.ret.at[team].avg_success_rate
               # RDivInt(SumRates(pipeline_metrics, PipelinesOf(pipeline_metrics, team)), 2)

\* the records of the pipeline that started at or after now - days
InWindow(log, pipeline_id, days, now) ==
    {i \in DOMAIN log :
        log[i].pipeline_id = pipeline_id /\ log[i].start_time.day >= now - days}

(* C8: performance_trends never raises, and returns an error object when   *)
(* no record of the pipeline started at or after now - days.               *)
C8_TrendsNeverRaise ==
    IsQuery(call, "performance_trends") =>
        /\ call.exc = NoExc
        /\ InWindow(executions,
                    IF call.what.kwargs.pipeline_id # None
                    THEN call.what.kwargs.pipeline_id ELSE Some(""),
                    IF call.what.kwargs.days # None THEN call.what.kwargs.days[1] ELSE 7,
                    call.what.now[1]) = {}
              => "error" \in DOMAIN call.ret

MetricKeys == {"success_rate", "avg_duration", "avg_records_processed"}

\* the template of the messages of the pass of a metric
TemplateOf(metric_key) ==
    IF metric_key = "success_rate" THEN "Anomalous success rate"
    ELSE IF metric_key = "avg_duration" THEN "Anomalous high duration"
    ELSE "Anomalous low records processed"

\* the value of the metric for a pipeline with executions
ValueOf(metrics_map, pid, metric_key) ==
    IF metric_key = "success_rate"
    THEN R(metrics_map.at[pid].successful_executions * 100,
           metrics_map.at[pid].total_executions)
    ELSE metrics_map.at[pid][metric_key]

\* the pipelines with at least min_executions executions
Eligible(metrics_map) ==
    {pid \in Range(metrics_map.keys) : metrics_map.at[pid].total_executions >= 5}

\* the pipelines that qualify for the peer list of the metric
Qualifying(metrics_map, metric_key) ==
    {pid \in Eligible(metrics_map) :
        metric_key = "success_rate" \/ RLess(RZero, ValueOf(metrics_map, pid, metric_key))}

\* the alerts of the pass of the metric among the alerts
AlertsFor(alert_dicts, metric_key) ==
    {i \in DOMAIN alert_dicts : alert_dicts[i].message.template = TemplateOf(metric_key)}

RECURSIVE SumValues(_, _, _)
\* the sum of the values of the metric over a set of pipelines
SumValues(metrics_map, pids, metric_key) ==
    IF pids = {} THEN RZero
    ELSE LET pid == CHOOSE x \in pids : TRUE
         IN  RAdd(ValueOf(metrics_map, pid, metric_key),
                  SumValues(metrics_map, pids \ {pid}, metric_key))

\* the mean of the metric over the pipelines that qualify
PeerMean(metrics_map, metric_key) ==
    RDivInt(SumValues(metrics_map, Qualifying(metrics_map, metric_key), metric_key),
            Cardinality(Qualifying(metrics_map, metric_key)))

\* the metric of an alert, and its HIGH-severity delta
MetricOf(alert_dict) ==
    CHOOSE metric_key \in MetricKeys : alert_dict.message.template = TemplateOf(metric_key)
DeltaOf(metric_key) ==
    IF metric_key = "success_rate" THEN 30
    ELSE IF metric_key = "avg_duration" THEN 100
    ELSE 1000

\* |peer mean - value| for the pipeline and the metric of an alert
DeviationOf(metrics_map, alert_dict) ==
    RAbs(RSub(PeerMean(metrics_map, MetricOf(alert_dict)),
              ValueOf(metrics_map, alert_dict.pipeline_id, MetricOf(alert_dict))))

(* C7: the anomaly query does not fail, and returns no alert for a metric  *)
(* for which fewer than 3 pipelines qualify (at least 5 executions and,    *)
(* for duration and records, a value above 0).                             *)
C7_SmallSampleNoAlerts ==
    IsQuery(call, "anomalies") =>
        /\ call.exc = NoExc
        /\ \A metric_key \in MetricKeys :
               Cardinality(Qualifying(pipeline_metrics, metric_key)) < 3
                   => AlertsFor(call.ret, metric_key) = {}

\* two pipelines qualify for a metric, a pipeline with enough executions is
\* further from one of them than the metric's delta, and the query returned
\* no alert for the metric while it returned one for another metric
C7_Witness ==
    /\ IsQuery(call, "anomalies")
    /\ call.exc = NoExc
    /\ call.ret # <<>>
    /\ \E metric_key \in MetricKeys :
          /\ Cardinality(Qualifying(pipeline_metrics, metric_key)) = 2
          /\ AlertsFor(call.ret, metric_key) = {}
          /\ \E p \in Eligible(pipeline_metrics), q \in Qualifying(pipeline_metrics, metric_key) :
                RLess(RInt(DeltaOf(metric_key)),
                      RAbs(RSub(ValueOf(pipeline_metrics, p, metric_key),
                                ValueOf(pipeline_metrics, q, metric_key))))

(* C9: every alert of an anomaly query is MEDIUM or HIGH, and HIGH exactly *)
(* when |peer mean - value| is greater than the delta of its metric: 30    *)
(* for success rate, 100 for duration, 1000 for records processed.         *)
C9_SeverityByDelta ==
    IsQuery(call, "anomalies") =>
        \A i \in DOMAIN call.ret :
            /\ call.ret[i].severity \in {"MEDIUM", "HIGH"}
            /\ call.ret[i].severity = "HIGH"
                 <=> RLess(RInt(DeltaOf(MetricOf(call.ret[i]))),
                           DeviationOf(pipeline_metrics, call.ret[i]))

\* an alert whose deviation is the delta of its metric, MEDIUM, beside an
\* alert that is HIGH
C9_Witness ==
    /\ IsQuery(call, "anomalies")
    /\ \E i, j \in DOMAIN call.ret :
          /\ DeviationOf(pipeline_metrics, call.ret[i]) = RInt(DeltaOf(MetricOf(call.ret[i])))
          /\ call.ret[i].severity = "MEDIUM"
          /\ call.ret[j].severity = "HIGH"

\* the alerts without their timestamps
Untimed(alert_dicts) ==
    [i \in DOMAIN alert_dicts |->
        [pipeline_id |-> alert_dicts[i].pipeline_id, severity |-> alert_dicts[i].severity,
         message |-> alert_dicts[i].message, team |-> alert_dicts[i].team]]

\* the outcome r of the query made again on the monitor as the first query
\* left it is the outcome of the first but for the timestamps, and leaves
\* the monitor as it is
SameAgain(r) ==
    /\ r.exc = call.exc
    /\ Untimed(r.ret) = Untimed(call.ret)
    /\ r.self = Self

(* C10: an anomaly query made right after an anomaly query, at any time of *)
(* the clock, returns the alerts of the first in the same order, with the  *)
(* same pipeline ids, severities, messages and teams.                      *)
C10_RepeatableAnomalies ==
    IsQuery(call, "anomalies") =>
        \A now \in Nows : SameAgain(query(Self, "anomalies", call.what.kwargs, now))

\* the first query returned several alerts, and the second one, made at
\* another time, returns them with other timestamps
C10_Witness ==
    /\ IsQuery(call, "anomalies")
    /\ Len(call.ret) >= 2
    /\ \E now \in Nows : query(Self, "anomalies", call.what.kwargs, now).ret # call.ret

RECURSIVE SumSquares(_, _, _, _)
\* the sum of the squares of value - m of the metric over a set of pipelines
SumSquares(metrics_map, pids, metric_key, m) ==
    IF pids = {} THEN RZero
    ELSE LET pid == CHOOSE x \in pids : TRUE
         IN  RAdd(RSquare(RSub(ValueOf(metrics_map, pid, metric_key), m)),
                  SumSquares(metrics_map, pids \ {pid}, metric_key, m))

\* the square of the standard deviation of the metric over the pipelines
\* that qualify, at least two
PeerVariance(metrics_map, metric_key) ==
    RDivInt(SumSquares(metrics_map, Qualifying(metrics_map, metric_key), metric_key,
                       PeerMean(metrics_map, metric_key)),
            Cardinality(Qualifying(metrics_map, metric_key)) - 1)

\* rate < m - 5 when v = 0, rate < m - sqrt(v) otherwise
BelowRateThreshold(rate, m, v) ==
    IF v = RZero THEN RLess(rate, RSub(m, RInt(5)))
    ELSE RLess(rate, m) /\ RLess(v, RSquare(RSub(m, rate)))

\* the threshold m - 5 when v = 0, m - 1 * sqrt(v) otherwise
RateThreshold(m, v) ==
    [base |-> m, coef |-> -1, radicand |-> IF v = RZero THEN RInt(25) ELSE v]

\* the pipelines with enough executions all have the same success rate
SameRates(metrics_map) ==
    \A p, q \in Eligible(metrics_map) :
        ValueOf(metrics_map, p, "success_rate") = ValueOf(metrics_map, q, "success_rate")

\* the success-rate pass over at least 3 peers with mean m and variance v:
\* its threshold is RateThreshold(m, v), the alerts carry it, and a
\* pipeline has an alert exactly when its rate is below it
RatePass(metrics_map, alert_dicts, m, v) ==
    /\ threshold_func("success_rate", m, v) = RateThreshold(m, v)
    /\ \A i \in AlertsFor(alert_dicts, "success_rate") :
           alert_dicts[i].message.threshold = RateThreshold(m, v)
    /\ \A p \in Eligible(metrics_map) :
           (\E i \in AlertsFor(alert_dicts, "success_rate") : alert_dicts[i].pipeline_id = p)
               <=> BelowRateThreshold(ValueOf(metrics_map, p, "success_rate"), m, v)

(* C11: in the success-rate pass the threshold is peer mean - 5 when the   *)
(* standard deviation of the peer rates is 0 and peer mean - 1 * stdev     *)
(* otherwise, a pipeline is flagged only when its rate is strictly below   *)
(* it, and when all pipelines with at least min_executions executions have *)
(* the same rate there is no success-rate alert.                           *)
C11_RateFallback ==
    IsQuery(call, "anomalies") =>
        /\ Cardinality(Eligible(pipeline_metrics)) >= 3 =>
               RatePass(pipeline_metrics, call.ret,
                        PeerMean(pipeline_metrics, "success_rate"),
                        PeerVariance(pipeline_metrics, "success_rate"))
        /\ SameRates(pipeline_metrics) => AlertsFor(call.ret, "success_rate") = {}

\* at least 3 pipelines have enough executions, all with the same rate, and
\* the query returned alerts but none for the success rate
C11_Witness ==
    /\ IsQuery(call, "anomalies")
    /\ Cardinality(Eligible(pipeline_metrics)) >= 3
    /\ SameRates(pipeline_metrics)
    /\ PeerVariance(pipeline_metrics, "success_rate") = RZero
    /\ call.ret # <<>>
    /\ AlertsFor(call.ret, "success_rate") = {}

\* the positions of the records of a pipeline in a log
PositionsOf(log, pid) == {i \in DOMAIN log : log[i].pipeline_id = pid}

\* the record of the pipeline that was ingested last
LastIngested(log, pid) ==
    log[CHOOSE i \in PositionsOf(log, pid) : \A j \in PositionsOf(log, pid) : j <= i]

\* the entry of the pipeline has the start time and the team of the record
\* of the pipeline that was ingested last
LastWriteWins(log, metrics_map, pid) ==
    /\ metrics_map.at[pid].last_execution = Some(LastIngested(log, pid).start_time)
    /\ metrics_map.at[pid].team = LastIngested(log, pid).team

\* a step that ingests no record of the pipeline leaves the last_execution
\* and the team of its entry as they are
OthersLeaveIt(pid) ==
    PositionsOf(executions', pid) = PositionsOf(executions, pid) =>
        /\ pipeline_metrics'.at[pid].last_execution = pipeline_metrics.at[pid].last_execution
        /\ pipeline_metrics'.at[pid].team = pipeline_metrics.at[pid].team

(* C12: after every step, the last_execution and the team of a pipeline    *)
(* are the start time and the team of the record of that pipeline that was *)
(* ingested last, whatever the start times of its records, and a step that *)
(* ingests only records of other pipelines does not change them.           *)
C12_LastWriteWins ==
    [][/\ \A pid \in Range(pipeline_metrics'.keys) :
              LastWriteWins(executions', pipeline_metrics', pid)
       /\ \A pid \in Range(pipeline_metrics.keys) : OthersLeaveIt(pid)]_vars

\* a load ingested a record of a pipeline, then a record of it with an
\* earlier start time and another team, then a record of another pipeline
\* with yet another team: the entry has the start time and the team of the
\* second
C12_Witness ==
    /\ IsLoad(call)
    /\ \E i, j, k \in DOMAIN executions :
          /\ i < j /\ j < k
          /\ executions[i].pipeline_id = executions[j].pipeline_id
          /\ executions[k].pipeline_id # executions[j].pipeline_id
          /\ executions[i].start_time.tzinfo = executions[j].start_time.tzinfo
          /\ executions[j].start_time.day < executions[i].start_time.day
          /\ executions[j].start_time.day < executions[k].start_time.day
          /\ executions[j].team # executions[i].team
          /\ executions[j].team # executions[k].team
          /\ pipeline_metrics.at[executions[j].pipeline_id].last_execution
                 = Some(executions[j].start_time)
          /\ pipeline_metrics.at[executions[j].pipeline_id].team = executions[j].team

RECURSIVE FoldedDuration(_, _)
\* the avg_duration of a pipeline after its records, in the order of their
\* ingestion: the n-th record, of duration d, makes it (avg * (n-1) + d) / n
\* when d > 0 and leaves it otherwise; it starts at 0
FoldedDuration(records, n) ==
    IF n = 0 THEN RZero
    ELSE IF records[n].duration > 0
    THEN RDivInt(RAdd(RMul(FoldedDuration(records, n - 1), RInt(n - 1)),
                      RInt(records[n].duration)), n)
    ELSE FoldedDuration(records, n - 1)

\* the records of a pipeline in a log, in order
RecordsOf(log, pid) == SelectSeq(log, LAMBDA e : e.pipeline_id = pid)

RECURSIVE SumDurations(_, _)
\* the sum of the durations of the first n records
SumDurations(records, n) ==
    IF n = 0 THEN 0 ELSE SumDurations(records, n - 1) + records[n].duration

\* the avg_duration of the entry against the records of its pipeline
DurationIsFolded(metrics, records) ==
    /\ metrics.total_executions = Len(records)
    /\ metrics.avg_duration = FoldedDuration(records, Len(records))
    /\ (\A i \in DOMAIN records : records[i].duration > 0) =>
           RMul(metrics.avg_duration, RInt(metrics.total_executions))
               = RInt(SumDurations(records, Len(records)))
    /\ (\A i \in DOMAIN records : ~(records[i].duration > 0)) =>
           metrics.avg_duration = RZero

(* C13: the avg_duration of a pipeline is the fold of its records in the   *)
(* order of ingestion, where the n-th record of the pipeline, of duration  *)
(* d, gives (avg * (n-1) + d) / n when d > 0 and leaves avg unchanged      *)
(* otherwise, every record counting in total_executions; so, exactly,      *)
(* avg_duration * total_executions is the sum of the durations when all    *)
(* are positive, and avg_duration is 0 when none is.                       *)
C13_RunningMean ==
    \A pid \in Range(pipeline_metrics.keys) :
        DurationIsFolded(pipeline_metrics.at[pid], RecordsOf(executions, pid))

\* a pipeline has records of different durations, all positive, and its
\* avg_duration times their number is their sum; another has a record and
\* none of positive duration, and its avg_duration is 0
C13_Witness ==
    /\ IsLoad(call)
    /\ \E p, q \in Range(pipeline_metrics.keys) :
          /\ \A i \in PositionsOf(executions, p) : executions[i].duration > 0
          /\ \E i, j \in PositionsOf(executions, p) :
                executions[i].duration # executions[j].duration
          /\ RMul(pipeline_metrics.at[p].avg_duration,
                  RInt(pipeline_metrics.at[p].total_executions))
                 = RInt(SumDurations(RecordsOf(executions, p), CountIn(executions, p)))
          /\ \A i \in PositionsOf(executions, q) : executions[i].duration = 0
          /\ pipeline_metrics.at[q].total_executions > 0
          /\ pipeline_metrics.at[q].avg_duration = RZero

=============================================================================
